---- MODULE Spec2Model ----
(***************************************************************************)
(* A model of the resource_merger library (src/src/lib.rs): the merge      *)
(* engine that reads pack sources into a path -> content table, inspects   *)
(* their pack.mcmeta descriptors, synthesizes a new pack.mcmeta and emits  *)
(* the entries of the output archive; and the two functions that put the   *)
(* result at a destination path, as an archive file or as a directory.     *)
(*                                                                         *)
(* Strings are sequences of one-character strings, so that the path        *)
(* sanitizer, the "/pack.mcmeta" suffix test and the lexical sort of the   *)
(* keys are computed character by character as the code computes them.     *)
(***************************************************************************)
EXTENDS Integers, Sequences, FiniteSets, TLC

VARIABLES
    universe,           \* which family of pack sources the caller draws its inputs from
    opts,               \* MergeOptions of the run
    packs,              \* the pack sources handed to the merge so far, in input order
    pc,                 \* position of the call
    pending,            \* entries of the current source still to be read
    files,              \* HashMap<String, Vec<u8>>: the merge table
    found_formats,      \* Vec<u32>
    found_max_formats,  \* Vec<u32>
    overlays_values,    \* Vec<serde_json::Value>
    result,             \* the Result<Vec<u8>> of the merge, once it returned
    raw,                \* argument of a stand-alone call of sanitize_zip_entry_name
    sanitized,          \* its return value
    mode,               \* the function called: "bytes" (merge_packs_to_bytes_with_options),
                        \* "file" (merge_packs_to_file_with_options), "dir" (merge_packs_to_dir)
    prev,               \* what is at the destination path when the function is called
    dest,               \* what is at the destination path
    written,            \* merge_packs_to_dir: entries of the archive gone through
    ret                 \* the Result<()> of the function, once it returned

outVars == <<mode, prev, dest, written, ret>>

vars == <<universe, opts, packs, pc, pending, files, found_formats, found_max_formats,
          overlays_values, result, raw, sanitized, outVars>>

mergeVars == <<universe, opts, packs, pc, pending, files, found_formats, found_max_formats,
               overlays_values, result>>

-----------------------------------------------------------------------------
(* Option<T> *)

None == [tag |-> "None"]

Some(v) == [tag |-> "Some", val |-> v]

IsSome(o) == o.tag = "Some"

-----------------------------------------------------------------------------
(* Strings *)

\* the file names the code spells out
PACK_MCMETA == <<"p", "a", "c", "k", ".", "m", "c", "m", "e", "t", "a">>

PACK_PNG == <<"p", "a", "c", "k", ".", "p", "n", "g">>

README_MD == <<"R", "E", "A", "D", "M", "E", ".", "m", "d">>

\* str::replace('\\', "/")
ReplaceBackslash(name) ==
    [k \in 1..Len(name) |-> IF name[k] = "\\" THEN "/" ELSE name[k]]

\* str::starts_with for a one-character pattern
StartsWithChar(s, c) == Len(s) >= 1 /\ s[1] = c

\* str::ends_with
EndsWith(s, suffix) ==
    /\ Len(suffix) <= Len(s)
    /\ SubSeq(s, Len(s) - Len(suffix) + 1, Len(s)) = suffix

\* str::split(c): the pieces between the occurrences of c, empty pieces included
RECURSIVE SplitOn(_, _)
SplitOn(s, c) ==
    IF \A k \in 1..Len(s) : s[k] # c
    THEN <<SubSeq(s, 1, Len(s))>>
    ELSE LET k == CHOOSE i \in 1..Len(s) :
                      s[i] = c /\ \A m \in 1..(i - 1) : s[m] # c
         IN  <<SubSeq(s, 1, k - 1)>> \o SplitOn(SubSeq(s, k + 1, Len(s)), c)

SplitSlash(s) == SplitOn(s, "/")

\* [&str]::join("/")
RECURSIVE JoinSlash(_)
JoinSlash(comps) ==
    IF Len(comps) = 0 THEN <<>>
    ELSE IF Len(comps) = 1 THEN comps[1]
    ELSE comps[1] \o <<"/">> \o JoinSlash(Tail(comps))

NonEmptyStr(s) == Len(s) > 0

DOTDOT == <<".", ".">>

\* A plausible slip: the absolute-path test is left out.
sanitize_zip_entry_name_NoAbsoluteCheck(name) ==
    LET n     == ReplaceBackslash(name)
        comps == SelectSeq(SplitSlash(n), NonEmptyStr)
    IN  IF \E k \in 1..Len(comps) : comps[k] = DOTDOT THEN None
        ELSE IF Len(comps) = 0 THEN None
        ELSE Some(JoinSlash(comps))

\* A plausible slip: the parent-traversal test is left out.
sanitize_zip_entry_name_NoDotDotCheck(name) ==
    LET n     == ReplaceBackslash(name)
        comps == SelectSeq(SplitSlash(n), NonEmptyStr)
    IN  IF StartsWithChar(n, "/") \/ StartsWithChar(n, "\\") THEN None
        ELSE IF Len(comps) = 0 THEN None
        ELSE Some(JoinSlash(comps))

\* fn sanitize_zip_entry_name(name: &str) -> Option<String>
sanitize_zip_entry_name(name) ==
    LET n     == ReplaceBackslash(name)
        comps == SelectSeq(SplitSlash(n), NonEmptyStr)
    IN  IF StartsWithChar(n, "/") \/ StartsWithChar(n, "\\") THEN None
        ELSE IF \E k \in 1..Len(comps) : comps[k] = DOTDOT THEN None
        ELSE IF Len(comps) = 0 THEN None
        ELSE Some(JoinSlash(comps))

-----------------------------------------------------------------------------
(* String order: Rust compares Strings byte by byte *)

CharCode(c) ==
    CASE c = "." -> 46  [] c = "/" -> 47
      [] c = "A" -> 65  [] c = "D" -> 68  [] c = "E" -> 69  [] c = "M" -> 77
      [] c = "R" -> 82  [] c = "\\" -> 92
      [] c = "a" -> 97  [] c = "b" -> 98  [] c = "c" -> 99  [] c = "d" -> 100
      [] c = "e" -> 101 [] c = "g" -> 103 [] c = "k" -> 107 [] c = "m" -> 109
      [] c = "n" -> 110 [] c = "p" -> 112 [] c = "t" -> 116 [] c = "z" -> 122

\* a < b for Strings
StrLess(a, b) ==
    \E k \in 1..(Len(b)) :
        /\ \A m \in 1..(k - 1) : m <= Len(a) /\ a[m] = b[m]
        /\ \/ k = Len(a) + 1
           \/ k <= Len(a) /\ CharCode(a[k]) < CharCode(b[k])

\* A plausible slip: the keys are sorted the wrong way round.
RECURSIVE SortStrings_Descending(_)
SortStrings_Descending(S) ==
    IF S = {} THEN <<>>
    ELSE LET greatest == CHOOSE x \in S : \A y \in S \ {x} : StrLess(y, x)
         IN  <<greatest>> \o SortStrings_Descending(S \ {greatest})

\* Vec<String>::sort() of a set of distinct strings
RECURSIVE SortStrings(_)
SortStrings(S) ==
    IF S = {} THEN <<>>
    ELSE LET least == CHOOSE x \in S : \A y \in S \ {x} : StrLess(x, y)
         IN  <<least>> \o SortStrings(S \ {least})

Range(seq) == {seq[k] : k \in 1..Len(seq)}

\* Iterator::max / Iterator::min over a non-empty Vec<u32>
MaxOf(seq) == CHOOSE x \in Range(seq) : \A y \in Range(seq) : y <= x

MinOf(seq) == CHOOSE x \in Range(seq) : \A y \in Range(seq) : x <= y

-----------------------------------------------------------------------------
(* JSON values, as far as the code looks into them.                        *)
(* A non-negative integer N is kept as its two 32-bit halves,              *)
(* N = hi * 2^32 + lo: "N as u32" is lo, and N fits in a u32 iff hi = 0.   *)

Absent == [k |-> "absent"]

NumV(hi, lo) == [k |-> "num", hi |-> hi, lo |-> lo]      \* the JSON number N

StrV(hi, lo) == [k |-> "str", hi |-> hi, lo |-> lo]      \* the JSON string "N"

OtherV == [k |-> "other"]     \* anything else: float, negative, bool, text, ...

\* the closure try_from_value of extract_pack_format_from_mcmeta
try_from_value(val) ==
    IF val.k = "num" THEN Some(val.lo)
    ELSE IF val.k = "str" /\ val.hi = 0 THEN Some(val.lo)
    ELSE None

\* File contents.  Blob: bytes that are not a pack.mcmeta document (they do not
\* parse as JSON); src and idx say which input entry they came from.
Blob(src, idx) == [t |-> "blob", src |-> src, idx |-> idx]

\* A JSON document {"pack": {pack_format, max_format, supported_formats:
\* {max_inclusive}}, pack_format, max_format, overlays}; a missing member is Absent,
\* pack = Absent when there is no "pack" member.
JsonDoc(pack, top_pf, top_mf, overlays) ==
    [t |-> "json", pack |-> pack, pack_format |-> top_pf, max_format |-> top_mf,
     overlays |-> overlays]

PackObj(pf, mf, max_inclusive) ==
    [pack_format |-> pf, max_format |-> mf, max_inclusive |-> max_inclusive]

\* fn extract_pack_format_from_mcmeta(s: &str) -> Result<(u32, Option<u32>), ()>
\* (Err(()) is None here, Ok((pf, mf)) is Some([pf, mf]))
extract_pack_format_from_mcmeta(s) ==
    IF s.t # "json" THEN None
    ELSE
      LET hasPack == s.pack # Absent
          pf1 == IF hasPack /\ s.pack.pack_format # Absent
                 THEN try_from_value(s.pack.pack_format) ELSE None
          mf1 == IF hasPack /\ s.pack.max_format # Absent
                 THEN try_from_value(s.pack.max_format) ELSE None
          mf2 == IF hasPack /\ s.pack.max_inclusive # Absent
                    /\ IsSome(try_from_value(s.pack.max_inclusive))
                 THEN try_from_value(s.pack.max_inclusive) ELSE mf1
          pf  == IF ~IsSome(pf1) /\ s.pack_format # Absent
                 THEN try_from_value(s.pack_format) ELSE pf1
          mf  == IF ~IsSome(mf2) /\ s.max_format # Absent
                 THEN try_from_value(s.max_format) ELSE mf2
      IN  IF IsSome(pf) THEN Some([pf |-> pf.val, mf |-> mf]) ELSE None

\* fn extract_overlays_from_mcmeta(s: &str) -> Option<serde_json::Value>
extract_overlays_from_mcmeta(s) ==
    IF s.t = "json" /\ s.overlays # Absent THEN Some(s.overlays) ELSE None

-----------------------------------------------------------------------------
(* Overlays.  An "overlays" value is [entries |-> None] when it has no       *)
(* "entries" array, else [entries |-> Some(<<entry, ...>>)]; an entry is     *)
(* [directory |-> None | Some(name), src, pos]: directory is None when the   *)
(* entry has no string "directory" member, src and pos say which source      *)
(* declared it and where in that source's array.                             *)

\* merged_entries.insert(dir.to_string(), entry.clone()) for one array
RECURSIVE InsertOverlayEntries(_, _)
InsertOverlayEntries(merged, arr) ==
    IF Len(arr) = 0 THEN merged
    ELSE LET entry == Head(arr)
             next  == IF IsSome(entry.directory)
                      THEN (entry.directory.val :> entry) @@ merged
                      ELSE merged
         IN  InsertOverlayEntries(next, Tail(arr))

\* the loop "for overlay_val in overlays_list" of merge_overlays
RECURSIVE CollectOverlayEntries(_, _)
CollectOverlayEntries(merged, overlays_list) ==
    IF Len(overlays_list) = 0 THEN merged
    ELSE LET overlay_val == Head(overlays_list)
             next == IF IsSome(overlay_val.entries)
                     THEN InsertOverlayEntries(merged, overlay_val.entries.val)
                     ELSE merged
         IN  CollectOverlayEntries(next, Tail(overlays_list))

\* A plausible slip: an entry already present is kept (first source wins).
RECURSIVE InsertOverlayEntries_KeepFirst(_, _)
InsertOverlayEntries_KeepFirst(merged, arr) ==
    IF Len(arr) = 0 THEN merged
    ELSE LET entry == Head(arr)
             next  == IF IsSome(entry.directory)
                      THEN merged @@ (entry.directory.val :> entry)
                      ELSE merged
         IN  InsertOverlayEntries_KeepFirst(next, Tail(arr))

RECURSIVE CollectOverlayEntries_KeepFirst(_, _)
CollectOverlayEntries_KeepFirst(merged, overlays_list) ==
    IF Len(overlays_list) = 0 THEN merged
    ELSE LET overlay_val == Head(overlays_list)
             next == IF IsSome(overlay_val.entries)
                     THEN InsertOverlayEntries_KeepFirst(merged, overlay_val.entries.val)
                     ELSE merged
         IN  CollectOverlayEntries_KeepFirst(next, Tail(overlays_list))

merge_overlays_KeepFirst(overlays_list) ==
    IF Len(overlays_list) = 0 THEN None
    ELSE LET merged_entries == CollectOverlayEntries_KeepFirst(<<>>, overlays_list)
         IN  IF DOMAIN merged_entries = {} THEN None
             ELSE LET sorted == SortStrings(DOMAIN merged_entries)
                  IN  Some([entries |->
                              [k \in 1..Len(sorted) |-> merged_entries[sorted[k]]]])

\* fn merge_overlays(overlays_list: &[serde_json::Value]) -> Option<serde_json::Value>
merge_overlays(overlays_list) ==
    IF Len(overlays_list) = 0 THEN None
    ELSE LET merged_entries == CollectOverlayEntries(<<>>, overlays_list)
         IN  IF DOMAIN merged_entries = {} THEN None
             ELSE LET sorted == SortStrings(DOMAIN merged_entries)
                  IN  Some([entries |->
                              [k \in 1..Len(sorted) |-> merged_entries[sorted[k]]]])

-----------------------------------------------------------------------------
(* Metadata synthesis *)

\* enum OverwritePolicy
OverwritePolicies == {"LastWins", "FirstWins", "ErrorIfConflict", "SkipIfExists"}

\* enum SupportedFormatsPolicy
SupportedFormatsPolicies == {"OneToHighest", "LowestToHighest", "OneToLatest"}

\* impl Default for MergeOptions
DefaultOptions ==
    [overwrite |-> "LastWins", dry_run |-> FALSE, atomic |-> TRUE,
     preserve_timestamps |-> FALSE, pack_format_override |-> None,
     supported_formats_policy |-> "OneToHighest", description_override |-> None,
     tolerate_missing_inputs |-> FALSE]

\* A plausible slip: the format found last is taken, not the highest.
final_pack_fmt_LastFound(o, formats) ==
    IF IsSome(o.pack_format_override) THEN o.pack_format_override.val
    ELSE IF formats = <<>> THEN 1
    ELSE formats[Len(formats)]

\* A plausible slip: the override only fills in when nothing was found.
final_pack_fmt_FoundFirst(o, formats) ==
    IF Len(formats) > 0 THEN MaxOf(formats)
    ELSE IF IsSome(o.pack_format_override) THEN o.pack_format_override.val
    ELSE 1

\* let final_pack_fmt = ...
final_pack_fmt(o, formats) ==
    IF IsSome(o.pack_format_override) THEN o.pack_format_override.val
    ELSE IF Len(formats) = 0 THEN 1
    ELSE MaxOf(formats)

\* the arm of OneToHighest (and, copied, of OneToLatest)
OneToHighestFormats(formats, final) ==
    LET high == IF Len(formats) = 0 THEN final ELSE MaxOf(formats)
    IN  IF high <= 1 THEN <<1>> ELSE <<1, high>>

\* A plausible slip: the lower bound is 1 under every policy.
supported_formats_AlwaysFromOne(o, formats, final) ==
    OneToHighestFormats(formats, final)

\* let supported_formats: Vec<u32> = match opts.supported_formats_policy ...
supported_formats(o, formats, final) ==
    CASE o.supported_formats_policy = "OneToHighest" ->
             OneToHighestFormats(formats, final)
      [] o.supported_formats_policy = "LowestToHighest" ->
             IF Len(formats) = 0 THEN <<final>>
             ELSE LET low  == MinOf(formats)
                      high == MaxOf(formats)
                  IN  IF low = high THEN <<low>> ELSE <<low, high>>
      [] o.supported_formats_policy = "OneToLatest" ->
             OneToHighestFormats(formats, final)

\* A plausible slip: the explicit max formats are ignored.
actual_max_format_BoundsOnly(max_formats, supported, final) ==
    supported[Len(supported)]

\* let actual_max_format = ...
actual_max_format(max_formats, supported, final) ==
    IF Len(max_formats) = 0
    THEN (IF Len(supported) > 0 THEN supported[Len(supported)] ELSE final)
    ELSE MaxOf(max_formats)

\* const OLD_FORMAT_THRESHOLD: u32 = 65
OLD_FORMAT_THRESHOLD == 65

DefaultDescription == "Made with Rust API: resource_merger"

\* fn make_pack_mcmeta(pack_format, supported_formats, description, max_format, overlays)
make_pack_mcmeta(pack_format, supported, description, max_format, overlays) ==
    LET desc == IF IsSome(description) THEN description.val ELSE DefaultDescription
        min_format == IF Len(supported) > 0 THEN supported[1] ELSE pack_format
        needs_old_format == min_format < OLD_FORMAT_THRESHOLD
    IN  [t |-> "mcmeta",
         pack_format |-> IF needs_old_format THEN Some(pack_format) ELSE None,
         min_format |-> min_format,
         max_format |-> max_format,
         description |-> desc,
         supported_formats |-> IF needs_old_format THEN Some(supported) ELSE None,
         overlays |-> overlays]

\* fn default_pack_png_bytes() -> Vec<u8>
default_pack_png_bytes == [t |-> "default_png"]

\* fn make_readme(packs: &[PackInput]) -> String: one line per input, its kind
make_readme(ps) == [t |-> "readme", inputs |-> [k \in 1..Len(ps) |-> ps[k].kind]]

-----------------------------------------------------------------------------
(* Pack sources.                                                             *)
(* A source is [kind, state, entries].  kind is the variant of PackInput.    *)
(* state is "ok", or why the source cannot be read: "not_a_directory" (Dir), *)
(* "unreadable" (the file cannot be opened or the bytes are no zip archive;  *)
(* for a Url, the body begins with "PK" and is no archive), or, for a Url,   *)
(* what went wrong with the download: "request_failed", "status_not_success",*)
(* "body_unreadable", "no_zip_signature".  entries are the                   *)
(* files of the source, [name, data].  For a Dir, name is the file's path    *)
(* relative to the root, its components separated by the platform's          *)
(* separator, written SEP (no component is empty, ".." or holds a '/': they  *)
(* are names of directory entries).  For an archive, name is the raw entry   *)
(* name, and the names of an archive are distinct.                           *)

\* std::path::MAIN_SEPARATOR, whichever it is on the platform
SEP == "SEP"

\* rel.iter().map(|p| p.to_string_lossy()).collect::<Vec<_>>().join("/")
DirKey(rel) == JoinSlash(SplitOn(rel, SEP))

PackKinds == {"Dir", "ZipFile", "ZipBytes", "Url"}

\* ZipFile::is_dir: the entry name ends with a slash
is_dir_entry(name) == Len(name) > 0 /\ name[Len(name)] \in {"/", "\\"}

\* the key under which an entry of a source goes into the map, None when the
\* entry is skipped (read_dir_into_map / read_zipfile_into_map / read_zipbytes_into_map)
EntryKey(kind, name) ==
    IF kind = "Dir" THEN Some(DirKey(name))
    ELSE IF is_dir_entry(name) THEN None
    ELSE sanitize_zip_entry_name(name)

\* A plausible slip: an existing entry is kept (first wins).
InsertEntry_KeepExisting(map, key, data) ==
    IF key \in DOMAIN map THEN map ELSE (key :> data) @@ map

\* map.insert(name, buf): whatever opts.overwrite says, the new content replaces
\* the old
InsertEntry(map, key, data) == (key :> data) @@ map

\* A plausible slip: the body is not checked for the "PK" signature.
fetch_url_bytes_NoSignatureCheck(src) ==
    IF src.state \in {"request_failed", "status_not_success", "body_unreadable"}
    THEN [status |-> "Err", variant |-> "InvalidInput"]
    ELSE [status |-> "Ok"]

\* fn fetch_url_bytes(url: &str) -> Result<Vec<u8>>
fetch_url_bytes(src) ==
    IF src.state \in {"request_failed", "status_not_success", "body_unreadable",
                      "no_zip_signature"}
    THEN [status |-> "Err", variant |-> "InvalidInput"]
    ELSE [status |-> "Ok"]

\* Err(e) => ... in the Url arm
FetchFailed(src) == src.kind = "Url" /\ fetch_url_bytes(src).status = "Err"

\* is the entry the source's top-level pack.mcmeta? (dir.join("pack.mcmeta"),
\* archive.by_name("pack.mcmeta"))
IsTopLevelMcmeta(kind, name) ==
    name = PACK_MCMETA

\* A plausible slip: no peek, the formats come from the merge table alone.
peek_pack_format_NoPeek(src) == None

\* fn peek_pack_format_from_dir / _from_zipfile / _from_zipbytes:
\* Option<(u32, Option<u32>, Option<Value>)>
peek_pack_format(src) ==
    IF src.state # "ok" THEN None
    ELSE LET tops == {k \in 1..Len(src.entries) :
                         IsTopLevelMcmeta(src.kind, src.entries[k].name)}
         IN  IF tops = {} THEN None
             ELSE LET buf == src.entries[CHOOSE k \in tops : TRUE].data
                      formats == extract_pack_format_from_mcmeta(buf)
                  IN  IF IsSome(formats)
                      THEN Some([pf |-> formats.val.pf, mf |-> formats.val.mf,
                                 overlays |-> extract_overlays_from_mcmeta(buf)])
                      ELSE None

\* found_formats.push(pf)
PushFormat(list, peek) == IF IsSome(peek) THEN Append(list, peek.val.pf) ELSE list

\* if let Some(max) = mf { found_max_formats.push(max) }
PushMaxFormat(list, peek) ==
    IF IsSome(peek) /\ IsSome(peek.val.mf) THEN Append(list, peek.val.mf.val) ELSE list

\* if let Some(ov) = overlays { overlays_values.push(ov) }
PushOverlays(list, peek) ==
    IF IsSome(peek) /\ IsSome(peek.val.overlays)
    THEN Append(list, peek.val.overlays.val) ELSE list

\* k == "pack.mcmeta" || k.ends_with("/pack.mcmeta")
IsMcmetaKey(k) == k = PACK_MCMETA \/ EndsWith(k, <<"/">> \o PACK_MCMETA)

\* the orders in which a HashMap may be iterated
Orders(S) ==
    {o \in [1..Cardinality(S) -> S] : \A i, j \in 1..Cardinality(S) : i # j => o[i] # o[j]}

\* the second pass "for (k, v) in &files", over the matching keys in the order given
RECURSIVE ScanFormats(_, _, _)
ScanFormats(list, map, order) ==
    IF Len(order) = 0 THEN list
    ELSE LET f == extract_pack_format_from_mcmeta(map[Head(order)])
         IN  ScanFormats(IF IsSome(f) THEN Append(list, f.val.pf) ELSE list,
                         map, Tail(order))

RECURSIVE ScanMaxFormats(_, _, _)
ScanMaxFormats(list, map, order) ==
    IF Len(order) = 0 THEN list
    ELSE LET f == extract_pack_format_from_mcmeta(map[Head(order)])
         IN  ScanMaxFormats(IF IsSome(f) /\ IsSome(f.val.mf)
                            THEN Append(list, f.val.mf.val) ELSE list,
                            map, Tail(order))

\* A plausible slip: only pack.mcmeta is kept out of the pass over the table.
ReservedNames_OnlyMcmeta == {PACK_MCMETA}

ReservedNames == {PACK_MCMETA, PACK_PNG, README_MD}

\* the entries written to the ZipWriter, in the order they are written
ArchiveEntries(o, ps, map, formats, max_formats, overlays_list) ==
    LET keys == SortStrings(DOMAIN map \ ReservedNames)
        final == final_pack_fmt(o, formats)
        supported == supported_formats(o, formats, final)
        mcmeta == make_pack_mcmeta(final, supported, o.description_override,
                                   actual_max_format(max_formats, supported, final),
                                   merge_overlays(overlays_list))
    IN  [k \in 1..Len(keys) |-> [name |-> keys[k], data |-> map[keys[k]]]]
        \o <<[name |-> PACK_MCMETA, data |-> mcmeta],
             [name |-> PACK_PNG, data |-> default_pack_png_bytes]>>
        \o (IF README_MD \in DOMAIN map THEN <<>>
            ELSE <<[name |-> README_MD, data |-> make_readme(ps)]>>)

\* the merge has not returned
NoResult == [status |-> "None"]

Ok(entries) == [status |-> "Ok", entries |-> entries]

\* MergeError: its variant and the input (index in packs) it is about
Err(variant, source) == [status |-> "Err", variant |-> variant, source |-> source]

-----------------------------------------------------------------------------
(* The destination path.  Nothing is there, or a file, or a directory; a     *)
(* directory is the files under it, by their '/'-joined relative paths (its  *)
(* subdirectories are the proper prefixes of these paths).                   *)

DestAbsent == [kind |-> "absent"]

DestFile(data) == [kind |-> "file", data |-> data]

DestDir(fs) == [kind |-> "dir", files |-> fs]

\* content that was there before the call
OldData == [t |-> "old"]

\* the bytes of the archive: its entries; complete is FALSE for the bytes of a
\* write that did not reach the end
ArchiveFile(entries, complete) == [t |-> "archive", entries |-> entries, complete |-> complete]

\* Ok(())
OkUnit == [status |-> "Ok"]

\* the directories a file at path p lies in
Ancestors(p) == {SubSeq(p, 1, k - 1) : k \in {m \in 1..Len(p) : p[m] = "/"}}

\* is p a directory with files under it?
IsDirIn(fs, p) ==
    \E q \in DOMAIN fs : Len(q) > Len(p) /\ SubSeq(q, 1, Len(p) + 1) = p \o <<"/">>

\* A plausible slip: the dry run is not honoured.
dry_run_returns_Never(o) == FALSE

\* if opts.dry_run { let _ = merge_packs_to_bytes_with_options(packs, opts)?; return Ok(()); }
dry_run_returns(o) == o.dry_run

\* One turn of the loop of merge_packs_to_dir over the entry e of the archive:
\* the files under out_dir after it, or the io::Error of create_dir_all (a file
\* stands where a directory is needed) or of File::create (a directory stands
\* where the file is to go).
ExtractEntry(fs, e) ==
    IF is_dir_entry(e.name) THEN [status |-> "Ok", files |-> fs]
    ELSE LET name == sanitize_zip_entry_name(e.name)
         IN  IF ~IsSome(name) THEN [status |-> "Ok", files |-> fs]
             ELSE IF \E a \in Ancestors(name.val) : a \in DOMAIN fs
             THEN [status |-> "Err", files |-> fs]
             ELSE IF IsDirIn(fs, name.val) THEN [status |-> "Err", files |-> fs]
             ELSE [status |-> "Ok", files |-> (name.val :> e.data) @@ fs]

-----------------------------------------------------------------------------
(* Stand-alone calls of the sanitizer *)

MaxLen == 4

SanAlphabet == {"a", ".", "/", "\\"}

RECURSIVE StringsUpTo(_)
StringsUpTo(n) ==
    IF n = 0 THEN {<<>>}
    ELSE LET shorter == StringsUpTo(n - 1)
         IN  shorter \cup {Append(s, c) : s \in {t \in shorter : Len(t) = n - 1},
                                          c \in SanAlphabet}

EX_abc == <<"a", "/", "b", "/", "c", ".", "t", "x", "t">>

EX_backslash == <<"a", "\\", "b", ".", "t", "x", "t">>

EX_backslash_out == <<"a", "/", "b", ".", "t", "x", "t">>

EX_evil == <<".", ".", "/", "e", "v", "i", "l">>

EX_passwd == <<"/", "e", "t", "c", "/", "p", "a", "s", "s", "w", "d">>

SanInputs == StringsUpTo(MaxLen) \cup {EX_abc, EX_backslash, EX_evil, EX_passwd}

Unset == [tag |-> "Unset"]

Idle ==
    /\ universe = "none"
    /\ opts = [tag |-> "Unset"]
    /\ packs = <<>>
    /\ pc = "idle"
    /\ pending = <<>>
    /\ files = <<>>
    /\ found_formats = <<>>
    /\ found_max_formats = <<>>
    /\ overlays_values = <<>>
    /\ result = NoResult
    /\ mode = "none"
    /\ prev = DestAbsent
    /\ dest = prev
    /\ written = 0
    /\ ret = NoResult

InitSan ==
    /\ Idle
    /\ raw \in SanInputs
    /\ sanitized = Unset

CallSanitize ==
    /\ pc = "idle"
    /\ sanitized = Unset
    /\ sanitized' = sanitize_zip_entry_name(raw)
    /\ UNCHANGED <<raw, mergeVars, outVars>>

NextSan == CallSanitize

SpecSan == InitSan /\ [][NextSan]_vars

-----------------------------------------------------------------------------
(* The inputs of a run.  Every entry of a source gets content of its own     *)
(* (Blob(source index, entry index)), so that the source a piece of output   *)
(* came from can be told; pack.mcmeta documents are drawn from small sets.   *)

MaxPacks == 2       \* sources per run

MaxEntries == 2     \* files per source

\* the sequences of at most n distinct elements of S
RECURSIVE SeqsDistinct(_, _)
SeqsDistinct(S, n) ==
    IF n = 0 THEN {<<>>}
    ELSE LET shorter == SeqsDistinct(S, n - 1)
         IN  shorter \cup
             UNION {{Append(q, x) : x \in S \ Range(q)} :
                        q \in {r \in shorter : Len(r) = n - 1}}

SetToSeq(S) == CHOOSE q \in Orders(S) : TRUE

BlobT == [t |-> "blob"]

N_a == <<"a">>

N_dba == <<"d", "\\", "a">>

N_da == <<"d", "/", "a">>

\* a descriptor {"pack": {"pack_format": pf}}
DocPf(pf) == JsonDoc(PackObj(pf, Absent, Absent), Absent, Absent, Absent)

Source(kind, state, entries) == [kind |-> kind, state |-> state, entries |-> entries]

DistinctNames(q) == \A i, j \in 1..Len(q) : i # j => q[i].name # q[j].name

\* the sequences of at most n entries of S with distinct names
RECURSIVE EntrySeqs(_, _)
EntrySeqs(S, n) ==
    IF n = 0 THEN {<<>>}
    ELSE LET shorter == EntrySeqs(S, n - 1)
         IN  shorter \cup
             UNION {{Append(q, x) : x \in {y \in S : \A k \in 1..Len(q) : q[k].name # y.name}} :
                        q \in {r \in shorter : Len(r) = n - 1}}

ZipSourcesOf(kinds, entrySet) ==
    {Source(k, "ok", q) : k \in kinds, q \in EntrySeqs(entrySet, MaxEntries)}

DirSourcesOf(fileSet) ==
    {Source("Dir", "ok", q) :
        q \in {SetToSeq(F) : F \in {G \in SUBSET fileSet : Cardinality(G) <= MaxEntries}}
               \cap {r \in SeqsDistinct(fileSet, MaxEntries) : DistinctNames(r)}}

\* family "content": the same paths in several sources
ContentSources ==
    ZipSourcesOf({"ZipBytes"},
                 {[name |-> N_a, data |-> BlobT], [name |-> N_dba, data |-> BlobT],
                  [name |-> PACK_MCMETA, data |-> DocPf(NumV(0, 3))]})
    \cup DirSourcesOf({[name |-> N_a, data |-> BlobT],
                       [name |-> <<"d", SEP, "a">>, data |-> BlobT]})
    \cup {Source("Dir", "not_a_directory", <<>>)}

ContentOptions == {[DefaultOptions EXCEPT !.overwrite = p] : p \in OverwritePolicies}

N_up == <<".", ".", "/", "a">>

N_abs == <<"\\", "a">>

N_gap == <<"d", "/", "/", "a">>

N_empty == <<>>

\* family "paths": entry names the sanitizer rejects or rewrites, in sources of
\* every kind
PathsSources ==
    ZipSourcesOf({"ZipFile", "ZipBytes", "Url"},
                 {[name |-> N_up, data |-> BlobT], [name |-> N_abs, data |-> BlobT],
                  [name |-> N_gap, data |-> BlobT]})
    \cup DirSourcesOf({[name |-> N_a, data |-> BlobT],
                       [name |-> <<"d", SEP, "a">>, data |-> BlobT],
                       [name |-> <<"a", "\\", "a">>, data |-> BlobT]})

PathsOptions == {DefaultOptions}

\* an overlay entry as it stands in a document, before the source is known
OverlayEntry(directory, pos) == [directory |-> directory, src |-> 0, pos |-> pos]

\* the pack.mcmeta documents of the family "meta"
MetaDocs ==
    {DocPf(NumV(0, 1)), DocPf(NumV(0, 3)), DocPf(NumV(0, 7)), DocPf(StrV(0, 5)),
     DocPf(NumV(0, 70)),
     JsonDoc(PackObj(NumV(0, 5), NumV(0, 9), Absent), Absent, Absent,
             [entries |-> Some(<<OverlayEntry(Some(<<"a">>), 1)>>)]),
     JsonDoc(PackObj(NumV(0, 3), NumV(0, 4), NumV(0, 8)), Absent, Absent, Absent),
     JsonDoc(PackObj(OtherV, NumV(0, 9), Absent), Absent, Absent, Absent)}

N_nested == <<"d", "/">> \o PACK_MCMETA

\* family "meta": sources that declare formats, at the top level and nested
MetaSources ==
    ZipSourcesOf({"ZipBytes"},
                 {[name |-> PACK_MCMETA, data |-> d] : d \in MetaDocs}
                 \cup {[name |-> N_nested,
                        data |-> JsonDoc(PackObj(NumV(0, 9), NumV(0, 12), Absent),
                                         Absent, Absent, Absent)]})
    \cup DirSourcesOf({[name |-> PACK_MCMETA, data |-> DocPf(NumV(0, 7))],
                       [name |-> PACK_MCMETA,
                        data |-> JsonDoc(Absent, StrV(0, 5), NumV(0, 6), Absent)]})

MetaOptions ==
    {[DefaultOptions EXCEPT !.pack_format_override = ov, !.supported_formats_policy = sp] :
        ov \in {None, Some(4), Some(70)}, sp \in SupportedFormatsPolicies}

MaxOverlayEntries == 2      \* entries of one overlays array

OverlayDirs == {Some(<<"b">>), Some(<<"a">>), None}

RECURSIVE OverlayArrays(_)
OverlayArrays(n) ==
    IF n = 0 THEN {<<>>}
    ELSE LET shorter == OverlayArrays(n - 1)
         IN  shorter \cup {Append(q, OverlayEntry(d, n)) :
                              q \in {r \in shorter : Len(r) = n - 1}, d \in OverlayDirs}

\* family "overlays": sources whose pack.mcmeta declares overlays
OverlaysSources ==
    ZipSourcesOf({"ZipBytes"},
                 {[name |-> PACK_MCMETA,
                   data |-> JsonDoc(PackObj(NumV(0, 3), Absent, Absent), Absent, Absent, ov)] :
                      ov \in {Absent, [entries |-> None]}
                             \cup {[entries |-> Some(q)] : q \in OverlayArrays(MaxOverlayEntries)}}
                 \cup {[name |-> PACK_MCMETA,
                        data |-> JsonDoc(PackObj(OtherV, Absent, Absent), Absent, Absent,
                                         [entries |-> Some(<<OverlayEntry(Some(<<"a">>), 1)>>)])]})

OverlaysOptions == {DefaultOptions}

N_z == <<"z">>

\* family "reserved": sources that bring files under the names the merge
\* generates itself
ReservedSources ==
    ZipSourcesOf({"ZipBytes"},
                 {[name |-> N_z, data |-> BlobT],
                  [name |-> PACK_PNG, data |-> BlobT],
                  [name |-> README_MD, data |-> BlobT],
                  [name |-> PACK_MCMETA, data |-> DocPf(NumV(0, 3))]})

ReservedOptions == {DefaultOptions}

\* family "remote": downloads that fail or deliver something that is no archive,
\* among sources that can be read
RemoteSources ==
    ZipSourcesOf({"Url", "ZipBytes"},
                 {[name |-> N_a, data |-> BlobT],
                  [name |-> PACK_MCMETA, data |-> DocPf(NumV(0, 3))]})
    \cup {Source("Url", st, <<>>) :
             st \in {"request_failed", "status_not_success", "body_unreadable",
                     "no_zip_signature", "unreadable"}}

\* family "rejects": archives with entries the sanitizer rejects
RejectsSources ==
    ZipSourcesOf({"ZipFile"},
                 {[name |-> N_up, data |-> BlobT], [name |-> N_abs, data |-> BlobT],
                  [name |-> N_empty, data |-> BlobT], [name |-> N_a, data |-> BlobT]})
    \cup ZipSourcesOf({"ZipBytes"},
                      {[name |-> N_up, data |-> BlobT], [name |-> N_a, data |-> BlobT]})

RejectsOptions == {DefaultOptions}

N_d == <<"d">>

\* family "output": sources whose paths meet at the destination, a file d next
\* to a file d/a, a file d\a next to a file a in a directory d; and a source
\* that cannot be read
OutputSources ==
    ZipSourcesOf({"ZipBytes"},
                 {[name |-> N_d, data |-> BlobT], [name |-> N_da, data |-> BlobT]})
    \cup DirSourcesOf({[name |-> <<"d", SEP, "a">>, data |-> BlobT],
                       [name |-> N_dba, data |-> BlobT]})
    \cup {Source("Dir", "not_a_directory", <<>>), Source("ZipFile", "unreadable", <<>>),
          Source("Url", "request_failed", <<>>)}

OutputOptions ==
    {[DefaultOptions EXCEPT !.dry_run = dr, !.atomic = at] : dr \in BOOLEAN, at \in BOOLEAN}

\* what the caller may have at the destination path
OutputDests == {DestAbsent, DestFile(OldData), DestDir((N_a :> OldData))}

\* family "wide": descriptors whose pack_format is a number or a numeric string,
\* below 2^32 (hi = 0) and from 2^32 on (hi = 1: 2^32 + lo)
WideSources ==
    ZipSourcesOf({"ZipBytes"},
                 {[name |-> PACK_MCMETA, data |-> DocPf(v)] :
                     v \in {NumV(hi, lo) : hi \in {0, 1}, lo \in {0, 1, 5}}
                           \cup {StrV(hi, lo) : hi \in {0, 1}, lo \in {0, 1, 5}}})

WideOptions == {DefaultOptions}

RemoteOptions == {[DefaultOptions EXCEPT !.tolerate_missing_inputs = b] : b \in BOOLEAN}

Sources(u) ==
    CASE u = "content" -> ContentSources
      [] u = "reserved" -> ReservedSources
      [] u = "remote" -> RemoteSources
      [] u = "rejects" -> RejectsSources
      [] u = "output" -> OutputSources
      [] u = "wide" -> WideSources
      [] u = "meta" -> MetaSources
      [] u = "overlays" -> OverlaysSources
      [] u = "paths" -> PathsSources
      [] OTHER -> {}

\* the content of entry k of source i
TagData(data, i, k) ==
    IF data.t = "blob" THEN Blob(i, k)
    ELSE IF data.overlays # Absent /\ IsSome(data.overlays.entries)
    THEN [data EXCEPT !.overlays.entries =
             Some([m \in 1..Len(data.overlays.entries.val) |->
                      [data.overlays.entries.val[m] EXCEPT !.src = i]])]
    ELSE data

Instantiate(t, i) ==
    [t EXCEPT !.entries =
        [k \in 1..Len(t.entries) |-> [name |-> t.entries[k].name,
                                      data |-> TagData(t.entries[k].data, i, k)]]]

-----------------------------------------------------------------------------
(* merge_packs_to_bytes_with_options *)

Start ==
    /\ packs = <<>>
    /\ pc = "collect"
    /\ pending = <<>>
    /\ files = <<>>
    /\ found_formats = <<>>
    /\ found_max_formats = <<>>
    /\ overlays_values = <<>>
    /\ result = NoResult
    /\ raw = <<>>
    /\ sanitized = Unset
    /\ written = 0
    /\ ret = NoResult

\* the call is of merge_packs_to_bytes_with_options: there is no destination
InMemory ==
    /\ mode = "bytes"
    /\ prev = DestAbsent
    /\ dest = prev

\* which MergeError reading an unreadable source returns
ErrorVariant(src) ==
    IF FetchFailed(src) THEN fetch_url_bytes(src).variant
    ELSE IF src.state = "not_a_directory" THEN "InvalidInput"
    ELSE "Zip"

\* One turn of "for pack in packs", up to the first entry: the peek, and the
\* opening of the source by read_*_into_map (or fetch_url_bytes).
CollectSource ==
    /\ pc = "collect"
    /\ pending = <<>>
    /\ Len(packs) < MaxPacks
    /\ \E t \in Sources(universe) :
         LET i == Len(packs) + 1
             src == Instantiate(t, i)
             fetch_failed == FetchFailed(src)
             peek == IF fetch_failed THEN None ELSE peek_pack_format(src)
         IN  /\ packs' = Append(packs, src)
             /\ found_formats' = PushFormat(found_formats, peek)
             /\ found_max_formats' = PushMaxFormat(found_max_formats, peek)
             /\ overlays_values' = PushOverlays(overlays_values, peek)
             /\ IF src.state = "ok"
                THEN pending' = src.entries /\ UNCHANGED <<pc, result>>
                ELSE IF fetch_failed /\ opts.tolerate_missing_inputs
                THEN pending' = <<>> /\ UNCHANGED <<pc, result>>
                ELSE /\ pending' = <<>>
                     /\ pc' = "done"
                     /\ result' = Err(ErrorVariant(src), i)
    /\ UNCHANGED <<universe, opts, files, raw, sanitized, outVars>>

\* One turn of the loop of read_dir_into_map (WalkDir yields the files in an
\* order of its own) or of read_zipfile_into_map / read_zipbytes_into_map (the
\* entries by index).
ReadEntry ==
    /\ pc = "collect"
    /\ pending # <<>>
    /\ LET src == packs[Len(packs)]
       IN  \E k \in (IF src.kind = "Dir" THEN 1..Len(pending) ELSE {1}) :
             LET key == EntryKey(src.kind, pending[k].name)
             IN  /\ files' = IF IsSome(key)
                             THEN InsertEntry(files, key.val, pending[k].data)
                             ELSE files
                 /\ pending' = SubSeq(pending, 1, k - 1)
                                \o SubSeq(pending, k + 1, Len(pending))
    /\ UNCHANGED <<universe, opts, packs, pc, found_formats, found_max_formats,
                   overlays_values, result, raw, sanitized, outVars>>

\* After the last source: the second pass over the table, the synthesis of
\* pack.mcmeta and the writing of the archive.
Finish ==
    /\ pc = "collect"
    /\ pending = <<>>
    /\ \E order \in Orders({k \in DOMAIN files : IsMcmetaKey(k)}) :
         /\ found_formats' = ScanFormats(found_formats, files, order)
         /\ found_max_formats' = ScanMaxFormats(found_max_formats, files, order)
    /\ result' = Ok(ArchiveEntries(opts, packs, files, found_formats',
                                   found_max_formats', overlays_values))
    /\ pc' = "done"
    /\ UNCHANGED <<universe, opts, packs, pending, files, overlays_values, raw, sanitized,
                   outVars>>

Next == CollectSource \/ ReadEntry \/ Finish

Init ==
    /\ universe = "content"
    /\ opts \in ContentOptions
    /\ Start
    /\ InMemory

Spec == Init /\ [][Next]_vars

InitMeta ==
    /\ universe = "meta"
    /\ opts \in MetaOptions
    /\ Start
    /\ InMemory

SpecMeta == InitMeta /\ [][Next]_vars

InitOverlays ==
    /\ universe = "overlays"
    /\ opts \in OverlaysOptions
    /\ Start
    /\ InMemory

SpecOverlays == InitOverlays /\ [][Next]_vars

InitPaths ==
    /\ universe = "paths"
    /\ opts \in PathsOptions
    /\ Start
    /\ InMemory

SpecPaths == InitPaths /\ [][Next]_vars

InitReserved ==
    /\ universe = "reserved"
    /\ opts \in ReservedOptions
    /\ Start
    /\ InMemory

SpecReserved == InitReserved /\ [][Next]_vars

InitRemote ==
    /\ universe = "remote"
    /\ opts \in RemoteOptions
    /\ Start
    /\ InMemory

SpecRemote == InitRemote /\ [][Next]_vars

InitRejects ==
    /\ universe = "rejects"
    /\ opts \in RejectsOptions
    /\ Start
    /\ InMemory

SpecRejects == InitRejects /\ [][Next]_vars

InitWide ==
    /\ universe = "wide"
    /\ opts \in WideOptions
    /\ Start
    /\ InMemory

SpecWide == InitWide /\ [][Next]_vars

-----------------------------------------------------------------------------
(* merge_packs_to_file_with_options and merge_packs_to_dir: what they do     *)
(* once their call of merge_packs_to_bytes_with_options has returned         *)

\* A plausible slip: the destination is opened before the merge is computed,
\* so that an error of the merge leaves it created or emptied.
ReturnError_DestinationOpenedFirst ==
    /\ mode \in {"file", "dir"}
    /\ pc = "done"
    /\ result.status = "Err"
    /\ ret' = result
    /\ pc' = "returned"
    /\ dest' = IF mode = "file" THEN DestFile(ArchiveFile(<<>>, FALSE))
               ELSE IF dest.kind = "absent" THEN DestDir(<<>>) ELSE dest
    /\ UNCHANGED <<universe, opts, packs, pending, files, found_formats, found_max_formats,
                   overlays_values, result, raw, sanitized, mode, prev, written>>

\* let bytes = merge_packs_to_bytes_with_options(packs, opts)?;  on an Err
ReturnError ==
    /\ mode \in {"file", "dir"}
    /\ pc = "done"
    /\ result.status = "Err"
    /\ ret' = result
    /\ pc' = "returned"
    /\ UNCHANGED <<universe, opts, packs, pending, files, found_formats, found_max_formats,
                   overlays_values, result, raw, sanitized, mode, prev, dest, written>>

\* if opts.dry_run { ...; return Ok(()); }
DryRunReturn ==
    /\ mode \in {"file", "dir"}
    /\ pc = "done"
    /\ result.status = "Ok"
    /\ dry_run_returns(opts)
    /\ ret' = OkUnit
    /\ pc' = "returned"
    /\ UNCHANGED <<universe, opts, packs, pending, files, found_formats, found_max_formats,
                   overlays_values, result, raw, sanitized, mode, prev, dest, written>>

\* std::fs::write(out, bytes), its File::create: the file is created, or
\* truncated; there is no file to create where a directory stands
FileCreate ==
    /\ mode = "file"
    /\ pc = "done"
    /\ result.status = "Ok"
    /\ ~dry_run_returns(opts)
    /\ IF dest.kind = "dir"
       THEN ret' = Err("Io", "destination") /\ pc' = "returned" /\ dest' = dest
       ELSE dest' = DestFile(ArchiveFile(<<>>, FALSE)) /\ pc' = "writing" /\ ret' = ret
    /\ UNCHANGED <<universe, opts, packs, pending, files, found_formats, found_max_formats,
                   overlays_values, result, raw, sanitized, mode, prev, written>>

\* std::fs::write(out, bytes), its write_all, to the end
FileWriteAll ==
    /\ mode = "file"
    /\ pc = "writing"
    /\ dest' = DestFile(ArchiveFile(result.entries, TRUE))
    /\ ret' = OkUnit
    /\ pc' = "returned"
    /\ UNCHANGED <<universe, opts, packs, pending, files, found_formats, found_max_formats,
                   overlays_values, result, raw, sanitized, mode, prev, written>>

\* ZipArchive::new(cursor)? on the bytes just written, and
\* std::fs::create_dir_all(out_path)?
DirCreate ==
    /\ mode = "dir"
    /\ pc = "done"
    /\ result.status = "Ok"
    /\ ~dry_run_returns(opts)
    /\ IF dest.kind = "file"
       THEN ret' = Err("Io", "destination") /\ pc' = "returned" /\ dest' = dest
       ELSE /\ dest' = IF dest.kind = "absent" THEN DestDir(<<>>) ELSE dest
            /\ pc' = "extract"
            /\ ret' = ret
    /\ written' = 0
    /\ UNCHANGED <<universe, opts, packs, pending, files, found_formats, found_max_formats,
                   overlays_values, result, raw, sanitized, mode, prev>>

\* for i in 0..archive.len(): one turn, and the return after the last
DirExtractEntry ==
    /\ mode = "dir"
    /\ pc = "extract"
    /\ written < Len(result.entries)
    /\ LET out == ExtractEntry(dest.files, result.entries[written + 1])
       IN  IF out.status = "Err"
           THEN /\ ret' = Err("Io", "destination")
                /\ pc' = "returned"
                /\ UNCHANGED <<dest, written>>
           ELSE /\ dest' = DestDir(out.files)
                /\ written' = written + 1
                /\ IF written' = Len(result.entries)
                   THEN ret' = OkUnit /\ pc' = "returned"
                   ELSE UNCHANGED <<ret, pc>>
    /\ UNCHANGED <<universe, opts, packs, pending, files, found_formats, found_max_formats,
                   overlays_values, result, raw, sanitized, mode, prev>>

\* An operation on the file system fails for a reason of its own (no space, no
\* permission, ...) and its io::Error is returned by the ?.  A write_all that
\* fails leaves the bytes it had written; the files extracted so far stay.
IoFail ==
    /\ \/ /\ mode \in {"file", "dir"} /\ pc = "done" /\ result.status = "Ok"
          /\ ~dry_run_returns(opts)
          /\ dest' = dest
       \/ /\ pc = "writing"
          /\ \E k \in 0..(Len(result.entries) - 1) :
                dest' = DestFile(ArchiveFile(SubSeq(result.entries, 1, k), FALSE))
       \/ /\ pc = "extract"
          /\ dest' = dest
    /\ ret' = Err("Io", "environment")
    /\ pc' = "returned"
    /\ UNCHANGED <<universe, opts, packs, pending, files, found_formats, found_max_formats,
                   overlays_values, result, raw, sanitized, mode, prev, written>>

NextOutput ==
    \/ Next
    \/ ReturnError \/ DryRunReturn
    \/ FileCreate \/ FileWriteAll
    \/ DirCreate \/ DirExtractEntry
    \/ IoFail

InitOutput ==
    /\ universe = "output"
    /\ opts \in OutputOptions
    /\ Start
    /\ mode \in {"file", "dir"}
    /\ prev \in OutputDests
    /\ dest = prev

SpecOutput == InitOutput /\ [][NextOutput]_vars

-----------------------------------------------------------------------------
(* C4 *)

\* the raw name with every backslash read as a forward slash
C4_Converted(s) == [k \in DOMAIN s |-> IF s[k] \in {"\\", "/"} THEN "/" ELSE s[k]]

\* lo..hi is a '/'-separated segment of n: a maximal run of non-slash characters
C4_IsSegment(n, lo, hi) ==
    /\ 1 <= lo /\ lo <= hi /\ hi <= Len(n)
    /\ \A k \in lo..hi : n[k] # "/"
    /\ (lo = 1 \/ n[lo - 1] = "/")
    /\ (hi = Len(n) \/ n[hi + 1] = "/")

C4_Rejected(n) ==
    \/ (Len(n) > 0 /\ n[1] = "/")
    \/ \E lo \in 1..Len(n) :
           C4_IsSegment(n, lo, lo + 1) /\ n[lo] = "." /\ n[lo + 1] = "."
    \/ \A k \in 1..Len(n) : n[k] = "/"

\* the positions of n that survive: every non-slash character, and a slash only
\* when it directly follows a segment and another segment comes after it
C4_Kept(n) ==
    {k \in 1..Len(n) :
        \/ n[k] # "/"
        \/ /\ k > 1 /\ n[k - 1] # "/"
           /\ \E m \in (k + 1)..Len(n) : n[m] # "/"}

C4_Joined(n) ==
    LET K == C4_Kept(n)
    IN  [m \in 1..Cardinality(K) |->
            n[CHOOSE k \in K : Cardinality({x \in K : x <= k}) = m]]

\* C4: sanitize_zip_entry_name converts backslashes to forward slashes, returns
\* None when the converted name begins with '/', has a '..' segment or has no
\* non-empty segment, and otherwise returns the non-empty segments joined by
\* single '/'; "a/b/c.txt" is unchanged, "a\b.txt" becomes "a/b.txt", "../evil"
\* and "/etc/passwd" are rejected.
C4_Sanitize ==
    sanitized # Unset =>
        LET n == C4_Converted(raw)
        IN  /\ C4_Rejected(n) => sanitized = None
            /\ ~C4_Rejected(n) => sanitized = Some(C4_Joined(n))
            /\ raw = EX_abc => sanitized = Some(EX_abc)
            /\ raw = EX_backslash => sanitized = Some(EX_backslash_out)
            /\ raw \in {EX_evil, EX_passwd} => sanitized = None

C4_Witness ==
    /\ raw = <<"a", "\\", "/", "a">>
    /\ sanitized = Some(<<"a", "/", "a">>)

-----------------------------------------------------------------------------
(* What the claims speak of: the paths a source holds, and the output *)

\* the entries of a source that reach the table
C_Contributing(src) ==
    {k \in 1..Len(src.entries) : IsSome(EntryKey(src.kind, src.entries[k].name))}

\* the paths that occur in a source
C_PathsOf(src) ==
    {EntryKey(src.kind, src.entries[k].name).val : k \in C_Contributing(src)}

\* the content of path p in a source that holds it (the last entry of that path)
C_ContentIn(src, p) ==
    LET ks == {k \in C_Contributing(src) : EntryKey(src.kind, src.entries[k].name).val = p}
    IN  src.entries[CHOOSE k \in ks : \A m \in ks : m <= k].data

\* the sources, by index, that hold path p
C_Holders(p) == {i \in 1..Len(packs) : p \in C_PathsOf(packs[i])}

C_AllPaths == UNION {C_PathsOf(packs[i]) : i \in 1..Len(packs)}

C_First(p) == CHOOSE i \in C_Holders(p) : \A j \in C_Holders(p) : i <= j

C_Last(p) == CHOOSE i \in C_Holders(p) : \A j \in C_Holders(p) : j <= i

\* what the output archive stores at path p: the contents of its entries named p
C_OutData(p) == {result.entries[k].data : k \in {m \in 1..Len(result.entries) :
                                                    result.entries[m].name = p}}

-----------------------------------------------------------------------------
(* C1 *)

\* C1 as stated: under last-wins, the output content of every path that occurs
\* in a source is the content of the last source that holds it.
C1_Original ==
    (result.status = "Ok" /\ opts.overwrite = "LastWins") =>
        \A p \in C_AllPaths : C_OutData(p) = {C_ContentIn(packs[C_Last(p)], p)}

\* C1, amended: under last-wins, the output content of every path that occurs in
\* a source and is none of pack.mcmeta, pack.png, README.md is the content of the
\* last source (in input order) that holds it; a path of one source only keeps
\* that source's content.
C1_LastWins ==
    (result.status = "Ok" /\ opts.overwrite = "LastWins") =>
        \A p \in C_AllPaths \ ReservedNames :
            C_OutData(p) = {C_ContentIn(packs[C_Last(p)], p)}

C1_Witness ==
    /\ result.status = "Ok"
    /\ opts.overwrite = "LastWins"
    /\ Len(packs) = 2
    /\ C_Holders(N_a) = {1, 2}
    /\ C_Holders(N_da) = {1}
    /\ C_ContentIn(packs[1], N_a) # C_ContentIn(packs[2], N_a)
    /\ C_OutData(N_a) = {C_ContentIn(packs[2], N_a)}
    /\ C_OutData(N_da) = {C_ContentIn(packs[1], N_da)}

-----------------------------------------------------------------------------
(* C2 *)

\* C2: under FirstWins or SkipIfExists, the output content of every path that
\* occurs in two or more sources is the content of the first source that holds
\* it (stated for the paths other than pack.mcmeta, pack.png and README.md,
\* whose output content is generated).
C2_FirstWins ==
    (result.status = "Ok" /\ opts.overwrite \in {"FirstWins", "SkipIfExists"}) =>
        \A p \in C_AllPaths \ ReservedNames :
            Cardinality(C_Holders(p)) >= 2 =>
                C_OutData(p) = {C_ContentIn(packs[C_First(p)], p)}

-----------------------------------------------------------------------------
(* C3 *)

\* C3: under ErrorIfConflict, a path present in two or more sources makes the
\* merge return an error, and no archive is produced.
C3_ErrorIfConflict ==
    (result.status # "None" /\ opts.overwrite = "ErrorIfConflict"
        /\ \E p \in C_AllPaths : Cardinality(C_Holders(p)) >= 2) =>
        result.status = "Err"

-----------------------------------------------------------------------------
(* C5 *)

C5_SafeKey(k) ==
    /\ Len(k) > 0
    /\ k[1] # "/"
    /\ k[Len(k)] # "/"
    /\ \A m \in 1..(Len(k) - 1) : ~(k[m] = "/" /\ k[m + 1] = "/")
    /\ \A lo \in 1..Len(k) :
           ~(C4_IsSegment(k, lo, lo + 1) /\ k[lo] = "." /\ k[lo + 1] = ".")

\* C5: at every point of the collection, after each insertion, every key of the
\* merge table is a '/'-separated path with no leading slash, no empty segment
\* and no '..' segment, whatever the kinds of the sources.
C5_SafeKeys == \A k \in DOMAIN files : C5_SafeKey(k)

\* in the middle of a remote archive, one entry rejected and one inserted (its
\* empty segment removed)
C5_Witness ==
    /\ Len(packs) = 2
    /\ packs[1].kind = "Dir"
    /\ packs[2].kind = "Url"
    /\ Len(packs[2].entries) = 2
    /\ packs[2].entries[1].name = N_up
    /\ packs[2].entries[2].name = N_gap
    /\ pending = <<>>
    /\ pc = "collect"
    /\ DOMAIN files = {N_a, N_da}

-----------------------------------------------------------------------------
(* The generated pack.mcmeta, and what the sources declare *)

\* the document written to the output as pack.mcmeta
C_Mcmeta == CHOOSE d \in C_OutData(PACK_MCMETA) : TRUE

C_Max(S) == CHOOSE x \in S : \A y \in S : y <= x

C_Min(S) == CHOOSE x \in S : \A y \in S : x <= y

\* the formats found, as a set
C_Found == Range(found_formats)

\* what the top-level pack.mcmeta of a source declares, None when the source has
\* none or it does not parse
C_Declared(src) ==
    LET tops == {k \in 1..Len(src.entries) : src.entries[k].name = PACK_MCMETA}
    IN  IF src.state # "ok" \/ tops = {} THEN None
        ELSE extract_pack_format_from_mcmeta(src.entries[CHOOSE k \in tops : TRUE].data)

\* the sources whose top-level descriptor parses
C_Declaring == {i \in 1..Len(packs) : IsSome(C_Declared(packs[i]))}

-----------------------------------------------------------------------------
(* C6 *)

\* C6: the pack_format written to the generated pack.mcmeta is the override
\* when one is set, whatever the sources declare; else the maximum of the
\* formats found; else, nothing found, 1.  (The document carries pack_format
\* in its legacy shape, min_format < 65.)
C6_PackFormat ==
    result.status = "Ok" =>
        LET expected == IF IsSome(opts.pack_format_override)
                        THEN opts.pack_format_override.val
                        ELSE IF C_Found # {} THEN C_Max(C_Found)
                        ELSE 1
        IN  /\ final_pack_fmt(opts, found_formats) = expected
            /\ IsSome(C_Mcmeta.pack_format) => C_Mcmeta.pack_format.val = expected

\* an override of 4 wins over a declared format of 7
C6_Witness ==
    /\ result.status = "Ok"
    /\ opts.pack_format_override = Some(4)
    /\ 7 \in C_Found
    /\ C_Mcmeta.pack_format = Some(4)

-----------------------------------------------------------------------------
(* C7 *)

\* the bounds the code computes in the state reached
C7_Bounds ==
    supported_formats(opts, found_formats, final_pack_fmt(opts, found_formats))

C7_FromOne(S) == IF C_Max(S) <= 1 THEN <<1>> ELSE <<1, C_Max(S)>>

C7_FromLowest(S) == IF C_Min(S) = C_Max(S) THEN <<C_Min(S)>> ELSE <<C_Min(S), C_Max(S)>>

\* C7: from the set of formats found, OneToHighest gives [1, max] ([1] when
\* max <= 1), LowestToHighest gives [min, max] (one element when min = max) and
\* [final pack format] when nothing was found, OneToLatest gives what
\* OneToHighest gives; {3, 7} gives [1, 7] and [3, 7], {5} gives [1, 5] and [5].
\* The bounds are what the generated document carries as supported_formats and
\* min_format.
C7_SupportedFormats ==
    result.status = "Ok" =>
        LET pol == opts.supported_formats_policy
            sf == C7_Bounds
        IN  /\ (pol \in {"OneToHighest", "OneToLatest"} /\ C_Found # {}) =>
                   sf = C7_FromOne(C_Found)
            /\ (pol = "LowestToHighest" /\ C_Found # {}) => sf = C7_FromLowest(C_Found)
            /\ (pol = "LowestToHighest" /\ C_Found = {}) =>
                   sf = <<final_pack_fmt(opts, found_formats)>>
            /\ (pol \in {"OneToHighest", "OneToLatest"} /\ C_Found = {3, 7}) => sf = <<1, 7>>
            /\ (pol = "LowestToHighest" /\ C_Found = {3, 7}) => sf = <<3, 7>>
            /\ (pol \in {"OneToHighest", "OneToLatest"} /\ C_Found = {5}) => sf = <<1, 5>>
            /\ (pol = "LowestToHighest" /\ C_Found = {5}) => sf = <<5>>
            /\ C_Mcmeta.min_format = sf[1]
            /\ IsSome(C_Mcmeta.supported_formats) => C_Mcmeta.supported_formats.val = sf

\* formats 3 and 7 under LowestToHighest
C7_Witness ==
    /\ result.status = "Ok"
    /\ opts.supported_formats_policy = "LowestToHighest"
    /\ C_Found = {3, 7}
    /\ C_Mcmeta.supported_formats = Some(<<3, 7>>)

-----------------------------------------------------------------------------
(* C8 *)

\* C8: the max_format written to the generated pack.mcmeta is the maximum of
\* the explicit max formats found when there is one (so it is no less than the
\* explicit max format of any source whose descriptor parses), else the last
\* element of the supported-format bounds.
C8_MaxFormat ==
    result.status = "Ok" =>
        /\ found_max_formats # <<>> => C_Mcmeta.max_format = C_Max(Range(found_max_formats))
        /\ found_max_formats = <<>> => C_Mcmeta.max_format = C7_Bounds[Len(C7_Bounds)]
        /\ \A i \in C_Declaring :
               IsSome(C_Declared(packs[i]).val.mf) =>
                   /\ found_max_formats # <<>>
                   /\ C_Mcmeta.max_format >= C_Declared(packs[i]).val.mf.val

\* explicit max formats 8 and 9, above the bounds [1, 5]
C8_Witness ==
    /\ result.status = "Ok"
    /\ Range(found_max_formats) = {8, 9}
    /\ C7_Bounds = <<1, 5>>
    /\ C_Mcmeta.max_format = 9

-----------------------------------------------------------------------------
(* C9 *)

\* the overlays value of the top-level pack.mcmeta of a source that declares one
C9_Block(src) ==
    src.entries[CHOOSE k \in 1..Len(src.entries) :
                   src.entries[k].name = PACK_MCMETA].data.overlays

\* the overlay entries the sources declare: source, position, entry
C9_Entries ==
    UNION {{[i |-> i, k |-> k, e |-> C9_Block(packs[i]).entries.val[k]] :
               k \in {m \in 1..Len(C9_Block(packs[i]).entries.val) :
                         IsSome(C9_Block(packs[i]).entries.val[m].directory)}} :
           i \in {j \in C_Declaring : /\ C9_Block(packs[j]) # Absent
                                      /\ IsSome(C9_Block(packs[j]).entries)}}

C9_Dirs == {x.e.directory.val : x \in C9_Entries}

\* the last declaration of directory d: of the last source that declares d
C9_LastOf(d) ==
    CHOOSE x \in C9_Entries :
        /\ x.e.directory.val = d
        /\ \A y \in C9_Entries :
               y.e.directory.val = d => (y.i < x.i \/ (y.i = x.i /\ y.k <= x.k))

\* C9: the overlays of the generated pack.mcmeta hold one entry per directory
\* name declared by the sources, the entry of the last source that declares the
\* name, in ascending order of the names; there is no overlays section when no
\* source declares an overlay.
C9_Overlays ==
    result.status = "Ok" =>
        /\ C9_Dirs = {} => C_Mcmeta.overlays = None
        /\ C9_Dirs # {} =>
               /\ IsSome(C_Mcmeta.overlays)
               /\ LET q == C_Mcmeta.overlays.val.entries
                  IN  /\ Len(q) = Cardinality(C9_Dirs)
                      /\ \A m \in 1..Len(q) :
                             /\ IsSome(q[m].directory)
                             /\ q[m].directory.val \in C9_Dirs
                             /\ q[m] = C9_LastOf(q[m].directory.val).e
                      /\ \A m \in 1..(Len(q) - 1) :
                             StrLess(q[m].directory.val, q[m + 1].directory.val)

\* the first source declares b then a, the second declares a again
C9_Witness ==
    /\ result.status = "Ok"
    /\ Len(packs) = 2
    /\ C_Declaring = {1, 2}
    /\ C9_Block(packs[1]) = [entries |-> Some(<<[directory |-> Some(<<"b">>), src |-> 1, pos |-> 1],
                                                [directory |-> Some(<<"a">>), src |-> 1, pos |-> 2]>>)]
    /\ C9_Block(packs[2]) = [entries |-> Some(<<[directory |-> Some(<<"a">>), src |-> 2, pos |-> 1]>>)]
    /\ C_Mcmeta.overlays =
           Some([entries |-> <<[directory |-> Some(<<"a">>), src |-> 2, pos |-> 1],
                               [directory |-> Some(<<"b">>), src |-> 1, pos |-> 1]>>])

-----------------------------------------------------------------------------
(* C10 *)

\* the formats of the pack.mcmeta files that are in the merge table
C10_TableFormats ==
    {extract_pack_format_from_mcmeta(files[k]).val.pf :
        k \in {m \in DOMAIN files :
                  IsMcmetaKey(m) /\ IsSome(extract_pack_format_from_mcmeta(files[m]))}}

\* C10: every source whose top-level pack.mcmeta parses has its pack format, its
\* explicit max format and its overlays among the findings, also after a later
\* source has overwritten its pack.mcmeta in the table; without an override the
\* pack format written is the maximum over the declarations of all sources and
\* the pack.mcmeta files of the table.
C10_AllSourcesCount ==
    /\ \A i \in C_Declaring :
           LET d == C_Declared(packs[i]).val
               ov == extract_overlays_from_mcmeta(
                         packs[i].entries[CHOOSE k \in 1..Len(packs[i].entries) :
                                             packs[i].entries[k].name = PACK_MCMETA].data)
           IN  /\ d.pf \in C_Found
               /\ IsSome(d.mf) => d.mf.val \in Range(found_max_formats)
               /\ IsSome(ov) => ov.val \in Range(overlays_values)
    /\ (result.status = "Ok" /\ opts.pack_format_override = None
            /\ IsSome(C_Mcmeta.pack_format)) =>
           LET all == {C_Declared(packs[i]).val.pf : i \in C_Declaring}
                          \cup C10_TableFormats
           IN  C_Mcmeta.pack_format.val = (IF all = {} THEN 1 ELSE C_Max(all))

\* the first source declares 7 with nothing else, the second overwrites its
\* pack.mcmeta with one that declares 3: the format written is 7
C10_Witness ==
    /\ result.status = "Ok"
    /\ opts.pack_format_override = None
    /\ Len(packs) = 2
    /\ C_Declaring = {1, 2}
    /\ C_Declared(packs[1]).val.pf = 7
    /\ C_Declared(packs[2]).val.pf = 3
    /\ files[PACK_MCMETA] = C_ContentIn(packs[2], PACK_MCMETA)
    /\ C10_TableFormats = {3}
    /\ C_Mcmeta.pack_format = Some(7)

-----------------------------------------------------------------------------
(* C11 *)

\* the paths of the archive entries, in the order they are written
C11_Names == [k \in 1..Len(result.entries) |-> result.entries[k].name]

C11_Ascending(q) == \A k \in 1..(Len(q) - 1) : StrLess(q[k], q[k + 1])

\* the files the merge generates, in the order it writes them
C11_Generated ==
    <<PACK_MCMETA, PACK_PNG>> \o (IF README_MD \in DOMAIN files THEN <<>> ELSE <<README_MD>>)

\* C11 as stated: the paths of the entries of the output archive, the generated
\* pack.mcmeta, pack.png and README.md included, are strictly ascending in the
\* order the entries are written.
C11_Original == result.status = "Ok" => C11_Ascending(C11_Names)

\* C11, amended: the entries that come from the merge table are written first,
\* in strictly ascending order of their paths, one per path of the table other
\* than pack.mcmeta, pack.png and README.md; the generated files are written
\* after them, in the order pack.mcmeta, pack.png, README.md.
C11_TableSortedThenGenerated ==
    result.status = "Ok" =>
        LET n == Len(C11_Names) - Len(C11_Generated)
        IN  /\ n >= 0
            /\ C11_Ascending(SubSeq(C11_Names, 1, n))
            /\ {C11_Names[k] : k \in 1..n} = DOMAIN files \ ReservedNames
            /\ SubSeq(C11_Names, n + 1, Len(C11_Names)) = C11_Generated

\* two paths of the table, inserted in descending order, come out ascending
C11_Witness ==
    /\ result.status = "Ok"
    /\ Len(packs) = 2
    /\ C_PathsOf(packs[1]) = {N_da}
    /\ C_PathsOf(packs[2]) = {N_a}
    /\ C11_Names = <<N_a, N_da, PACK_MCMETA, PACK_PNG, README_MD>>

-----------------------------------------------------------------------------
(* C12 *)

\* A reference run over the same inputs: the entries of every source are read
\* in the order they are listed, and the tables are iterated in one fixed order.
RECURSIVE C12_ReadAll(_, _, _)
C12_ReadAll(map, kind, entries) ==
    IF entries = <<>> THEN map
    ELSE LET key == EntryKey(kind, Head(entries).name)
         IN  C12_ReadAll(IF IsSome(key) THEN InsertEntry(map, key.val, Head(entries).data)
                         ELSE map,
                         kind, Tail(entries))

RECURSIVE C12_Collect(_, _, _, _)
C12_Collect(o, ps, i, st) ==
    IF i > Len(ps) THEN st
    ELSE LET src == ps[i]
             fetch_failed == FetchFailed(src)
             peek == IF fetch_failed THEN None ELSE peek_pack_format(src)
             pushed == [st EXCEPT !.formats = PushFormat(st.formats, peek),
                                  !.max_formats = PushMaxFormat(st.max_formats, peek),
                                  !.overlays = PushOverlays(st.overlays, peek)]
         IN  IF src.state = "ok"
             THEN C12_Collect(o, ps, i + 1,
                              [pushed EXCEPT !.files = C12_ReadAll(st.files, src.kind, src.entries)])
             ELSE IF fetch_failed /\ o.tolerate_missing_inputs
             THEN C12_Collect(o, ps, i + 1, pushed)
             ELSE [pushed EXCEPT !.err = Some(Err(ErrorVariant(src), i))]

C12_Reference(o, ps) ==
    LET st == C12_Collect(o, ps, 1, [files |-> <<>>, formats |-> <<>>, max_formats |-> <<>>,
                                     overlays |-> <<>>, err |-> None])
        order == CHOOSE q \in Orders({k \in DOMAIN st.files : IsMcmetaKey(k)}) : TRUE
    IN  IF IsSome(st.err) THEN st.err.val
        ELSE Ok(ArchiveEntries(o, ps, st.files, ScanFormats(st.formats, st.files, order),
                               ScanMaxFormats(st.max_formats, st.files, order), st.overlays))

\* C12: every run over the same inputs and options returns the same result, the
\* same sequence of paths with the same contents, the generated pack.mcmeta
\* included: whatever order the directory walk yields the files in and whatever
\* order the hash map of the table is iterated in, the result is the one of the
\* reference run.
C12_Deterministic ==
    result.status # "None" => result = C12_Reference(opts, packs)

\* a table with two pack.mcmeta files declaring different formats (two orders
\* of the second pass), merged from two sources
C12_Witness ==
    /\ result.status = "Ok"
    /\ Len(packs) = 2
    /\ PACK_MCMETA \in DOMAIN files
    /\ N_nested \in DOMAIN files
    /\ extract_pack_format_from_mcmeta(files[PACK_MCMETA]) = Some([pf |-> 3, mf |-> None])
    /\ extract_pack_format_from_mcmeta(files[N_nested]).val.pf = 9
    /\ C_Mcmeta.pack_format = Some(9)

-----------------------------------------------------------------------------
(* C13 *)

\* the entries of the output archive named p
C13_EntriesNamed(p) == {k \in 1..Len(result.entries) : result.entries[k].name = p}

\* the pack.mcmeta the merge synthesizes from its findings
C13_Synthesized ==
    LET final == final_pack_fmt(opts, found_formats)
        supported == supported_formats(opts, found_formats, final)
    IN  make_pack_mcmeta(final, supported, opts.description_override,
                         actual_max_format(found_max_formats, supported, final),
                         merge_overlays(overlays_values))

\* C13: the output holds exactly one entry pack.mcmeta, the synthesized
\* document, and exactly one entry pack.png, the embedded default icon; the
\* pack.mcmeta and pack.png of the inputs are not in the output.
C13_ReservedGenerated ==
    result.status = "Ok" =>
        /\ Cardinality(C13_EntriesNamed(PACK_MCMETA)) = 1
        /\ Cardinality(C13_EntriesNamed(PACK_PNG)) = 1
        /\ C_OutData(PACK_MCMETA) = {C13_Synthesized}
        /\ C_OutData(PACK_PNG) = {default_pack_png_bytes}
        /\ \A i \in 1..Len(packs) :
               \A k \in 1..Len(packs[i].entries) :
                   packs[i].entries[k].name \in {PACK_MCMETA, PACK_PNG} =>
                       \A m \in 1..Len(result.entries) :
                           result.entries[m].data # packs[i].entries[k].data

\* both sources bring a pack.png, the second one a pack.mcmeta too
C13_Witness ==
    /\ result.status = "Ok"
    /\ C_Holders(PACK_PNG) = {1, 2}
    /\ C_Holders(PACK_MCMETA) = {2}
    /\ PACK_PNG \in DOMAIN files
    /\ PACK_MCMETA \in DOMAIN files
    /\ C_OutData(PACK_PNG) = {default_pack_png_bytes}

-----------------------------------------------------------------------------
(* C14 *)

\* C14: the output holds a README.md, the generated document that lists the
\* sources and their kinds in merge order, also when a source brings a
\* README.md of its own.
C14_ReadmeGenerated ==
    result.status = "Ok" =>
        /\ Cardinality(C13_EntriesNamed(README_MD)) = 1
        /\ C_OutData(README_MD) = {make_readme(packs)}

-----------------------------------------------------------------------------
(* C15 *)

\* C15: with dry_run, merge_packs_to_file_with_options and merge_packs_to_dir
\* run the whole merge, so that the error of an input is returned, and write
\* nothing: what is at the destination path is at every moment what was there
\* when the function was called.
C15_DryRunWritesNothing ==
    (opts.dry_run /\ mode \in {"file", "dir"}) =>
        /\ dest = prev
        /\ pc = "returned" =>
               /\ result.status \in {"Ok", "Err"}
               /\ result.status = "Err" => ret = result
               /\ result.status = "Ok" =>
                      /\ ret = OkUnit
                      /\ C_OutData(PACK_MCMETA) # {}

\* a dry run to a file that exists: the merge of two sources is computed, the
\* file is as it was
C15_Witness ==
    /\ opts.dry_run
    /\ mode = "file"
    /\ prev = DestFile(OldData)
    /\ pc = "returned"
    /\ ret = OkUnit
    /\ Len(packs) = 2
    /\ DOMAIN files = {N_d, N_da}
    /\ result.status = "Ok"
    /\ dest = DestFile(OldData)

-----------------------------------------------------------------------------
(* C16 *)

\* the path an entry of the archive is extracted to
C16_PathOf(e) == C4_Joined(C4_Converted(e.name))

\* the complete result is at the destination path
C16_Complete ==
    /\ result.status = "Ok"
    /\ \/ /\ mode = "file"
          /\ dest = DestFile(ArchiveFile(result.entries, TRUE))
       \/ /\ mode = "dir"
          /\ dest.kind = "dir"
          /\ \A k \in 1..Len(result.entries) :
                 /\ C16_PathOf(result.entries[k]) \in DOMAIN dest.files
                 /\ dest.files[C16_PathOf(result.entries[k])] # OldData

\* C16: with the atomic option, the destination path holds at every moment,
\* also when a write fails or the run is interrupted, what it held before or
\* the complete result.
C16_AtomicDestination ==
    (opts.atomic /\ mode \in {"file", "dir"}) => (dest = prev \/ C16_Complete)

-----------------------------------------------------------------------------
(* C19 *)

\* C19: directory mode puts at the destination the mapping from path to content
\* that archive mode puts into the archive: when it starts with nothing at the
\* destination and the file system does not fail for a reason of its own, it
\* returns Ok, every entry of the archive is one file under the output
\* directory, at its sanitized path and with its content, and there is no
\* other file.
C19_SameMapping ==
    (/\ mode = "dir" /\ ~opts.dry_run /\ prev = DestAbsent
     /\ pc = "returned" /\ result.status = "Ok"
     /\ ret # Err("Io", "environment")) =>
        /\ ret = OkUnit
        /\ dest.kind = "dir"
        /\ Cardinality(DOMAIN dest.files) = Len(result.entries)
        /\ \A k \in 1..Len(result.entries) :
               /\ C16_PathOf(result.entries[k]) \in DOMAIN dest.files
               /\ dest.files[C16_PathOf(result.entries[k])] = result.entries[k].data

-----------------------------------------------------------------------------
(* C17 *)

\* a remote source whose download fails: the request fails, the status is no
\* success, the body cannot be read, or the body does not begin with "PK"
C17_FetchFails(src) ==
    /\ src.kind = "Url"
    /\ src.state \in {"request_failed", "status_not_success", "body_unreadable",
                      "no_zip_signature"}

\* the step that takes up such a source
C17_TakesUpFailing ==
    /\ Len(packs') = Len(packs) + 1
    /\ C17_FetchFails(packs'[Len(packs')])

\* C17: with tolerate_missing_inputs, a remote source whose download fails is
\* skipped: it changes neither the table nor the findings, the merge goes on
\* and the sources that remain are merged; without it, the merge returns the
\* error of that source, and no later source is processed.
C17_FetchFailure ==
    /\ [][C17_TakesUpFailing =>
            IF opts.tolerate_missing_inputs
            THEN /\ pc' = "collect" /\ pending' = <<>> /\ result' = result
                 /\ UNCHANGED <<files, found_formats, found_max_formats, overlays_values>>
            ELSE /\ result' = Err("InvalidInput", Len(packs'))
                 /\ files' = files]_vars
    /\ [][result.status = "Err" => UNCHANGED <<packs, files, result>>]_vars
    /\ [](result.status = "Ok" =>
            /\ \A i \in 1..Len(packs) : C17_FetchFails(packs[i]) => opts.tolerate_missing_inputs
            /\ \A p \in C_AllPaths \ ReservedNames :
                   C_OutData(p) = {C_ContentIn(packs[C_Last(p)], p)})

\* the first source fails to download and is tolerated, the second is merged
C17_Witness ==
    /\ result.status = "Ok"
    /\ opts.tolerate_missing_inputs
    /\ Len(packs) = 2
    /\ C17_FetchFails(packs[1])
    /\ packs[1].state = "no_zip_signature"
    /\ C_PathsOf(packs[2]) = {N_a, PACK_MCMETA}
    /\ C_OutData(N_a) = {C_ContentIn(packs[2], N_a)}
    /\ found_formats = <<3, 3>>

-----------------------------------------------------------------------------
(* C18 *)

\* C18: with tolerate_missing_inputs, a remote source whose content is no zip
\* archive, content that begins with "PK" and cannot be opened as an archive
\* included, is skipped, and the merge does not return its error.
C18_InvalidArchiveSkipped ==
    (opts.tolerate_missing_inputs /\ result.status = "Err") =>
        ~(/\ packs[result.source].kind = "Url"
          /\ packs[result.source].state \in {"no_zip_signature", "unreadable"})

-----------------------------------------------------------------------------
(* C20 *)

\* an entry of an archive that is a file and whose name the sanitizer rejects
C20_RejectedEntry(src, e) ==
    /\ src.kind # "Dir"
    /\ ~is_dir_entry(e.name)
    /\ C4_Rejected(C4_Converted(e.name))

\* an entry of an archive that is a file and whose name the sanitizer accepts
C20_AcceptedEntry(src, e) ==
    /\ src.kind # "Dir"
    /\ ~is_dir_entry(e.name)
    /\ ~C4_Rejected(C4_Converted(e.name))

\* C20: an archive entry whose name the sanitizer rejects (absolute, a '..'
\* segment, or nothing left) is dropped without error: reading it leaves the
\* table as it is and the merge goes on; the merge succeeds, and every other
\* entry of the archive is in the table.
C20_RejectedDropped ==
    /\ [][(pending # <<>> /\ pending' = Tail(pending)
             /\ C20_RejectedEntry(packs[Len(packs)], Head(pending))) =>
            (files' = files /\ pc' = "collect" /\ result' = result)]_vars
    /\ [](result.status # "None" =>
            /\ result.status = "Ok"
            /\ \A i \in 1..Len(packs) :
                   \A k \in 1..Len(packs[i].entries) :
                       C20_AcceptedEntry(packs[i], packs[i].entries[k]) =>
                           /\ C4_Joined(C4_Converted(packs[i].entries[k].name)) \in DOMAIN files
                           /\ C_OutData(C4_Joined(C4_Converted(packs[i].entries[k].name))) # {})

\* an archive with a '..' entry and then a good one, after one with an absolute
\* and an empty name
C20_Witness ==
    /\ result.status = "Ok"
    /\ Len(packs) = 2
    /\ packs[1].kind = "ZipFile"
    /\ Len(packs[1].entries) = 2
    /\ packs[1].entries[1].name = N_abs
    /\ packs[1].entries[2].name = N_empty
    /\ Len(packs[2].entries) = 2
    /\ packs[2].entries[1].name = N_up
    /\ packs[2].entries[2].name = N_a
    /\ DOMAIN files = {N_a}
    /\ files[N_a] = packs[2].entries[2].data

-----------------------------------------------------------------------------
(* C21 *)

\* C21: in file mode and in directory mode nothing is written at the
\* destination path before every source is collected and the metadata is
\* synthesized: as long as the merge has not returned Ok the destination is
\* what it was before the run; so when a source fails during the collection
\* (not a directory, unreadable archive, failed download without tolerance)
\* the function returns that error and the destination is untouched, whatever
\* the atomic flag.
C21_NoWriteBeforeMerged ==
    mode \in {"file", "dir"} =>
        /\ dest # prev => (result.status = "Ok" /\ pc \in {"writing", "extract", "returned"})
        /\ pc = "collect" => dest = prev
        /\ result.status = "Err" =>
               /\ dest = prev
               /\ pc = "returned" => ret = result

\* without atomic, a first source is collected and the second is an archive
\* that cannot be read: the existing file at the destination is as it was
C21_Witness ==
    /\ mode = "file"
    /\ ~opts.atomic
    /\ ~opts.dry_run
    /\ prev = DestFile(OldData)
    /\ Len(packs) = 2
    /\ DOMAIN files = {N_d, N_da}
    /\ packs[2].state = "unreadable"
    /\ pc = "returned"
    /\ ret = Err("Zip", 2)
    /\ dest = DestFile(OldData)

-----------------------------------------------------------------------------
(* C22 *)

\* C22: in every generated pack.mcmeta, min_format <= pack_format <= max_format,
\* pack_format being the final pack format (the document spells it out in its
\* legacy shape).
C22_FormatInRange ==
    result.status = "Ok" =>
        LET pf == final_pack_fmt(opts, found_formats)
        IN  /\ IsSome(C_Mcmeta.pack_format) => C_Mcmeta.pack_format.val = pf
            /\ C_Mcmeta.min_format <= pf
            /\ pf <= C_Mcmeta.max_format

-----------------------------------------------------------------------------
(* C23 *)

\* the pack_format value of the descriptor of a source of the family "wide"
C23_Value(src) == src.entries[1].data.pack.pack_format

\* C23: a pack_format written as the number N and as the string "N" is read
\* alike: as N when N is below 2^32, as no value from 2^32 on, never as N
\* modulo 2^32.  (Stated on what each source with a descriptor is found to
\* declare, and on the formats found by the merge.)
C23_NumberAndStringAlike ==
    \A i \in 1..Len(packs) :
        (packs[i].entries # <<>> /\ C23_Value(packs[i]).k \in {"num", "str"}) =>
            /\ extract_pack_format_from_mcmeta(packs[i].entries[1].data) =
                   (IF C23_Value(packs[i]).hi = 0
                    THEN Some([pf |-> C23_Value(packs[i]).lo, mf |-> None])
                    ELSE None)
            /\ \A j \in 1..Len(packs) :
                   (packs[j].entries # <<>> /\ C23_Value(packs[j]).lo = C23_Value(packs[i]).lo
                       /\ C23_Value(packs[j]).hi = C23_Value(packs[i]).hi) =>
                       C_Declared(packs[j]) = C_Declared(packs[i])

====
